---- MODULE Spec2Model ----
(***************************************************************************)
(* sysstatus: the information-collection layer (the probes of              *)
(* sysstatus/core.py), the aggregator SystemInfo.get_all_info and the      *)
(* call sequences of sysstatus/cli.py main (Spec); direct calls of         *)
(* sysstatus/utils.py format_uptime (UptimeSpec); constructions of         *)
(* sysstatus/config.py Config (ConfigSpec); runs that the user interrupts  *)
(* (InterruptSpec); the "sysstatus" logger under sysstatus/utils.py        *)
(* setup_logging, SystemInfo() and main (LoggingSpec).                     *)
(*                                                                         *)
(* Python strings are TLA+ strings (\o is concatenation), a dict is a      *)
(* sequence of <<key, value>> pairs in insertion order, a parsed JSON      *)
(* value is a tagged record, and the outcome of a call is a record that    *)
(* either returns a value or raises an exception class with a message.     *)
(***************************************************************************)
EXTENDS Integers, Sequences, FiniteSets, TLC

VARIABLES
    environ,    \* os.environ: the four variables sysstatus.config reads
    response,   \* what the weather endpoint answers to requests.get
    system,     \* what the operating system answers to the local probes
    argument,   \* the float a direct call of format_uptime is given
    logger,     \* the logging module's logger named "sysstatus"
    last        \* the most recent call of the public interface and its outcome

vars == <<environ, response, system, argument, logger, last>>

(***************************************************************************)
(* Python values                                                           *)
(***************************************************************************)
\* Python's None where a str is expected (os.getenv of an unset variable,
\* an omitted city argument).
None == "<None>"

\* bool(s) of a str-or-None value: None and "" are falsy.
Truthy(s) == s \notin {None, ""}

\* s.startswith(p)
StartsWith(s, p) == Len(s) >= Len(p) /\ SubSeq(s, 1, Len(p)) = p

\* Parsed JSON values (the result of response.json()).
JNull == [t |-> "null"]
JNum(repr) == [t |-> "num", v |-> repr]     \* a number, by its Python str()
JStr(s) == [t |-> "str", v |-> s]
JList(items) == [t |-> "list", v |-> items]
JObj(fields) == [t |-> "obj", v |-> fields] \* fields: a function on the keys

\* str(j) as an f-string renders it.
PyStr(j) ==
    CASE j.t = "null" -> "None"
      [] j.t \in {"num", "str"} -> j.v
      [] OTHER -> "<repr>"

\* bool(j)
JTruthy(j) ==
    CASE j.t = "null" -> FALSE
      [] j.t = "num" -> j.v \notin {"0", "0.0"}
      [] j.t = "str" -> j.v # ""
      [] j.t = "list" -> Len(j.v) > 0
      [] j.t = "obj" -> DOMAIN j.v # {}

\* d.get(key, default) of a dict d
DictGet(d, key, default) == IF key \in DOMAIN d.v THEN d.v[key] ELSE default

(***************************************************************************)
(* Outcomes and exception classes                                          *)
(***************************************************************************)
Returned(v) == [status |-> "return", value |-> v, exc |-> "", msg |-> ""]
Raised(e, m) == [status |-> "raise", value |-> JNull, exc |-> e, msg |-> m]

\* The classes an exception of class e is an instance of.
Ancestors(e) ==
    CASE e \in {"WeatherAPIError", "SystemInfoError", "NetworkError"} ->
            {e, "SysStatusError", "Exception", "BaseException"}
      [] e \in {"requests.ConnectionError", "requests.Timeout", "requests.HTTPError"} ->
            {e, "requests.RequestException", "OSError", "Exception", "BaseException"}
      [] e = "requests.JSONDecodeError" ->
            {e, "requests.RequestException", "OSError", "ValueError",
             "Exception", "BaseException"}
      [] e \in {"subprocess.CalledProcessError", "subprocess.TimeoutExpired"} ->
            {e, "subprocess.SubprocessError", "Exception", "BaseException"}
      [] e \in {"FileNotFoundError", "PermissionError", "socket.gaierror"} ->
            {e, "OSError", "Exception", "BaseException"}
      [] e = "json.JSONDecodeError" -> {e, "ValueError", "Exception", "BaseException"}
      [] e = "KeyError" \/ e = "IndexError" -> {e, "LookupError", "Exception", "BaseException"}
      [] e = "KeyboardInterrupt" -> {e, "BaseException"}
      [] OTHER -> {e, "Exception", "BaseException"}

\* `except classes:` catches an exception of class e
Catches(classes, e) == Ancestors(e) \cap classes # {}

(***************************************************************************)
(* sysstatus/config.py: Config reads the process environment               *)
(***************************************************************************)
\* os.getenv(name, default): None stands for an unset variable.
Getenv(env, name, default) == IF env[name] = None THEN default ELSE env[name]

weather_api_key(env) == Getenv(env, "WEATHER_API_KEY", None)

default_city(env) == Getenv(env, "DEFAULT_CITY", "Dhaka")

DefaultUrlTemplate ==
    "http://api.openweathermap.org/data/2.5/weather?q={city}&appid={api_key}&units=metric"

weather_url_template(env) == Getenv(env, "WEATHER_API_URL", DefaultUrlTemplate)

Digits == <<"0", "1", "2", "3", "4", "5", "6", "7", "8", "9">>

IsDigit(c) == \E d \in 1..10 : Digits[d] = c

DigitValue(c) == (CHOOSE d \in 1..10 : Digits[d] = c) - 1

RECURSIVE DecimalValue(_, _)
DecimalValue(s, acc) ==
    IF s = "" THEN acc
    ELSE DecimalValue(SubSeq(s, 2, Len(s)), 10 * acc + DigitValue(SubSeq(s, 1, 1)))

\* int(s) of a str: a run of decimal digits, anything else is a ValueError.
PyInt(s) ==
    IF s # "" /\ \A i \in 1..Len(s) : IsDigit(SubSeq(s, i, i))
    THEN Returned(DecimalValue(s, 0))
    ELSE Raised("ValueError", "invalid literal for int() with base 10: '" \o s \o "'")

\* Config.timeout: int(os.getenv("REQUEST_TIMEOUT", "10"))
timeout(env) == PyInt(Getenv(env, "REQUEST_TIMEOUT", "10"))

(***************************************************************************)
(* str.format(city=..., api_key=...) of the URL template                   *)
(***************************************************************************)
\* The index of the first c in s at or after i, 0 when there is none.
RECURSIVE Find(_, _, _)
Find(s, c, i) ==
    IF i > Len(s) THEN 0
    ELSE IF SubSeq(s, i, i) = c THEN i
    ELSE Find(s, c, i + 1)

\* template.format(**kw) from position i on, acc the text formatted so far:
\* {{ and }} are literal braces, {name} is kw[name], an unknown name is a
\* KeyError, {} with no positional argument an IndexError, an unmatched
\* brace a ValueError.
RECURSIVE FormatFrom(_, _, _, _)
FormatFrom(s, i, kw, acc) ==
    IF i > Len(s) THEN Returned(acc)
    ELSE
        LET c == SubSeq(s, i, i)
            next == IF i < Len(s) THEN SubSeq(s, i + 1, i + 1) ELSE ""
            open == Find(s, "{", i)
        IN  IF c = "{" /\ next = "{" THEN FormatFrom(s, i + 2, kw, acc \o "{")
            ELSE IF c = "}" /\ next = "}" THEN FormatFrom(s, i + 2, kw, acc \o "}")
            ELSE IF c = "}" THEN
                Raised("ValueError", "Single '}' encountered in format string")
            ELSE IF c = "{" THEN
                LET close == Find(s, "}", i + 1)
                    name == SubSeq(s, i + 1, close - 1)
                IN  IF close = 0 THEN
                        Raised("ValueError", "expected '}' before end of string")
                    ELSE IF name = "" THEN
                        Raised("IndexError",
                               "Replacement index 0 out of range for positional args tuple")
                    ELSE IF name \notin DOMAIN kw THEN
                        Raised("KeyError", "'" \o name \o "'")
                    ELSE FormatFrom(s, close + 1, kw, acc \o kw[name])
            ELSE
                \* a run of literal text up to the next brace
                LET close == Find(s, "}", i)
                    stops == {open, close} \ {0}
                    stop == IF stops = {} THEN Len(s) + 1
                            ELSE CHOOSE k \in stops : \A j \in stops : k <= j
                IN  FormatFrom(s, stop, kw, acc \o SubSeq(s, i, stop - 1))

str_format(template, kw) == FormatFrom(template, 1, kw, "")

(***************************************************************************)
(* sysstatus/utils.py: safe_get_nested                                     *)
(***************************************************************************)
RECURSIVE safe_get_nested(_, _, _)
safe_get_nested(current, keys, default) ==
    IF keys = <<>> THEN current
    ELSE IF current.t = "obj" /\ Head(keys) \in DOMAIN current.v
         THEN safe_get_nested(current.v[Head(keys)], Tail(keys), default)
         ELSE default

(***************************************************************************)
(* sysstatus/core.py: SystemInfo.get_weather                               *)
(***************************************************************************)
\* type(j).__name__
PyTypeName(j) ==
    CASE j.t = "null" -> "NoneType"
      [] j.t = "num" -> "float"
      [] j.t = "str" -> "str"
      [] j.t = "list" -> "list"
      [] j.t = "obj" -> "dict"

NoAttribute(j, attr) ==
    Raised("AttributeError",
           "'" \o PyTypeName(j) \o "' object has no attribute '" \o attr \o "'")

\* The success sentinel of the status code embedded in the body.
SuccessCod == 200

\* data.get("cod") != 200
CodIsNotSuccess(cod) ==
    ~(cod.t = "num" /\ cod.v \in {ToString(SuccessCod), ToString(SuccessCod) \o ".0"})

\* Response.raise_for_status(): an HTTPError for a 4xx or 5xx status.
raise_for_status(resp, url) ==
    IF resp.http_status >= 400 /\ resp.http_status < 600
    THEN Raised("requests.HTTPError",
                ToString(resp.http_status)
                    \o (IF resp.http_status < 500 THEN " Client" ELSE " Server")
                    \o " Error for url: " \o url)
    ELSE Returned(JNull)

\* Lines 124-126: the request itself. transport counts the calls of
\* requests.get; the timeout argument is evaluated before the call is made.
WeatherRequest(env, resp, url) ==
    LET t == timeout(env)
        status == raise_for_status(resp, url)
    IN  IF t.status = "raise" THEN [out |-> t, transport |-> 0]
        ELSE IF resp.transport # "ok"
        THEN [out |-> Raised(resp.transport, resp.error), transport |-> 1]
        ELSE IF status.status = "raise" THEN [out |-> status, transport |-> 1]
        ELSE [out |-> resp.json, transport |-> 1]

\* Lines 135-138: the description of the first element of data["weather"].
WeatherDescription(data) ==
    LET weather_list == DictGet(data, "weather", JList(<<>>))
    IN  IF ~JTruthy(weather_list) THEN Returned(JNull)
        ELSE IF weather_list.t \notin {"str", "list", "obj"}
        THEN Raised("TypeError",
                    "object of type '" \o PyTypeName(weather_list) \o "' has no len()")
        ELSE IF weather_list.t = "obj" THEN Raised("KeyError", "0")
        ELSE IF weather_list.t = "str" THEN NoAttribute(weather_list, "get")
        ELSE IF weather_list.v[1].t # "obj" THEN NoAttribute(weather_list.v[1], "get")
        ELSE Returned(DictGet(weather_list.v[1], "description", JNull))

\* WeatherFormat with the schema check made before the embedded status
\* code is looked at.
WeatherFormatFieldsFirst(data, city) ==
    LET temp == safe_get_nested(data, <<"main", "temp">>, JNull)
        description == WeatherDescription(data)
    IN  IF data.t # "obj" THEN NoAttribute(data, "get")
        ELSE IF description.status = "raise" THEN description
        ELSE IF temp = JNull \/ description.value = JNull
        THEN Raised("WeatherAPIError", "Invalid weather data format")
        ELSE IF CodIsNotSuccess(DictGet(data, "cod", JNull))
        THEN Raised("WeatherAPIError",
                    "Weather API error: "
                        \o PyStr(DictGet(data, "message", JStr("Unknown API error"))))
        ELSE Returned(city \o ": " \o PyStr(temp) \o "°C, " \o PyStr(description.value))

\* WeatherFormat with `if not temp or not description` as its schema check.
WeatherFormatTruthy(data, city) ==
    LET temp == safe_get_nested(data, <<"main", "temp">>, JNull)
        description == WeatherDescription(data)
    IN  IF data.t # "obj" THEN NoAttribute(data, "get")
        ELSE IF CodIsNotSuccess(DictGet(data, "cod", JNull))
        THEN Raised("WeatherAPIError",
                    "Weather API error: "
                        \o PyStr(DictGet(data, "message", JStr("Unknown API error"))))
        ELSE IF description.status = "raise" THEN description
        ELSE IF ~JTruthy(temp) \/ ~JTruthy(description.value)
        THEN Raised("WeatherAPIError", "Invalid weather data format")
        ELSE Returned(city \o ": " \o PyStr(temp) \o "°C, " \o PyStr(description.value))

\* Lines 129-143: the parsed body to the formatted line.
WeatherFormat(data, city) ==
    LET temp == safe_get_nested(data, <<"main", "temp">>, JNull)
        description == WeatherDescription(data)
    IN  IF data.t # "obj" THEN NoAttribute(data, "get")
        ELSE IF CodIsNotSuccess(DictGet(data, "cod", JNull))
        THEN Raised("WeatherAPIError",
                    "Weather API error: "
                        \o PyStr(DictGet(data, "message", JStr("Unknown API error"))))
        ELSE IF description.status = "raise" THEN description
        ELSE IF temp = JNull \/ description.value = JNull
        THEN Raised("WeatherAPIError", "Invalid weather data format")
        ELSE Returned(city \o ": " \o PyStr(temp) \o "°C, " \o PyStr(description.value))

\* WeatherExcept with `except Exception` as its second clause.
WeatherExceptCatchAll(out) ==
    IF out.status = "raise" /\ Catches({"requests.RequestException"}, out.exc)
    THEN Raised("WeatherAPIError", "Failed to fetch weather data: " \o out.msg)
    ELSE IF out.status = "raise" /\ Catches({"Exception"}, out.exc)
    THEN Raised("WeatherAPIError", "Failed to parse weather data: " \o out.msg)
    ELSE out

\* Lines 145-148: the two except clauses of the try block, in order.
WeatherExcept(out) ==
    IF out.status = "raise" /\ Catches({"requests.RequestException"}, out.exc)
    THEN Raised("WeatherAPIError", "Failed to fetch weather data: " \o out.msg)
    ELSE IF out.status = "raise" /\ Catches({"KeyError", "IndexError", "ValueError"}, out.exc)
    THEN Raised("WeatherAPIError", "Failed to parse weather data: " \o out.msg)
    ELSE out

\* Lines 123-148: the try block and its except clauses, given the outcome
\* of the request.
WeatherTry(req, city) ==
    [out |-> WeatherExcept(IF req.out.status = "raise" THEN req.out
                           ELSE WeatherFormat(req.out.value, city)),
     transport |-> req.transport]

\* Lines 120-148: from the formatting of the URL on.
WeatherFetch(env, resp, city, url) ==
    IF url.status = "raise" THEN [out |-> url, transport |-> 0]
    ELSE WeatherTry(WeatherRequest(env, resp, url.value), city)

\* WeatherForCity without the check of the API key.
WeatherForCityUnchecked(env, resp, city, api_key) ==
    WeatherFetch(env, resp, city,
                 str_format(weather_url_template(env), [city |-> city, api_key |-> api_key]))

\* Lines 115-148: from the API key on, the city resolved.
WeatherForCity(env, resp, city, api_key) ==
    IF ~Truthy(api_key)
    THEN [out |-> Raised("WeatherAPIError", "Weather API key not configured"),
          transport |-> 0]
    ELSE WeatherFetch(env, resp, city,
                      str_format(weather_url_template(env),
                                 [city |-> city, api_key |-> api_key]))

\* get_weather that asks for the configured default city whatever it is given.
get_weather_DefaultCityOnly(env, resp, city) ==
    WeatherForCity(env, resp, default_city(env), weather_api_key(env))

\* get_weather with `city if city is not None else default_city`.
get_weather_NoneOnly(env, resp, city) ==
    WeatherForCity(env, resp, IF city # None THEN city ELSE default_city(env),
                   weather_api_key(env))

\* get_weather(city): the outcome, and the number of transport invocations.
get_weather(env, resp, city) ==
    WeatherForCity(env, resp, IF Truthy(city) THEN city ELSE default_city(env),
                   weather_api_key(env))

(***************************************************************************)
(* Python str methods used by the local probes                             *)
(***************************************************************************)
IsSpace(c) == c \in {" ", "\t"}

\* s.split(): the whitespace-separated tokens of s. word is the token being
\* read, acc the tokens read so far.
RECURSIVE SplitFrom(_, _, _, _)
SplitFrom(s, i, word, acc) ==
    IF i > Len(s) THEN (IF word = "" THEN acc ELSE Append(acc, word))
    ELSE IF IsSpace(SubSeq(s, i, i))
         THEN SplitFrom(s, i + 1, "", IF word = "" THEN acc ELSE Append(acc, word))
         ELSE SplitFrom(s, i + 1, word \o SubSeq(s, i, i), acc)

Split(s) == SplitFrom(s, 1, "", <<>>)

\* s.strip()
RECURSIVE LStrip(_)
LStrip(s) == IF s # "" /\ IsSpace(SubSeq(s, 1, 1)) THEN LStrip(SubSeq(s, 2, Len(s))) ELSE s

RECURSIVE RStrip(_)
RStrip(s) ==
    IF s # "" /\ IsSpace(SubSeq(s, Len(s), Len(s))) THEN RStrip(SubSeq(s, 1, Len(s) - 1)) ELSE s

Strip(s) == RStrip(LStrip(s))

\* sep.join(parts)
RECURSIVE Join(_, _)
Join(sep, parts) ==
    IF parts = <<>> THEN ""
    ELSE IF Len(parts) = 1 THEN parts[1]
    ELSE parts[1] \o sep \o Join(sep, Tail(parts))

AllDigits(s) == s # "" /\ \A i \in 1..Len(s) : IsDigit(SubSeq(s, i, i))

\* A finite float by its sign, whole part and fraction digits.
Float(neg, whole, frac) == [kind |-> "finite", neg |-> neg, whole |-> whole, frac |-> frac]

\* float(s): digits with an optional sign and an optional fraction, "inf"
\* and "nan"; anything else is a ValueError. A finite value is kept as its
\* sign, whole part and fraction digits.
PyFloat(s) ==
    LET neg == StartsWith(s, "-")
        body == IF neg THEN SubSeq(s, 2, Len(s)) ELSE s
        dot == Find(body, ".", 1)
        whole == IF dot = 0 THEN body ELSE SubSeq(body, 1, dot - 1)
        frac == IF dot = 0 THEN "" ELSE SubSeq(body, dot + 1, Len(body))
    IN  IF body \in {"inf", "nan"}
        THEN Returned([kind |-> body, neg |-> neg, whole |-> 0, frac |-> ""])
        ELSE IF AllDigits(whole) /\ (frac = "" \/ AllDigits(frac))
        THEN Returned(Float(neg, DecimalValue(whole, 0), frac))
        ELSE Raised("ValueError", "could not convert string to float: '" \o s \o "'")

\* FloatToInt that rounds to the nearest integer.
FloatToIntRounded(x) ==
    IF x.kind = "inf" THEN Raised("OverflowError", "cannot convert float infinity to integer")
    ELSE IF x.kind = "nan" THEN Raised("ValueError", "cannot convert float NaN to integer")
    ELSE Returned((IF x.neg THEN 0 - 1 ELSE 1)
                  * (x.whole + (IF x.frac # "" /\ DigitValue(SubSeq(x.frac, 1, 1)) >= 5
                                THEN 1 ELSE 0)))

\* int(x) of a float: truncation toward zero.
FloatToInt(x) ==
    IF x.kind = "inf" THEN Raised("OverflowError", "cannot convert float infinity to integer")
    ELSE IF x.kind = "nan" THEN Raised("ValueError", "cannot convert float NaN to integer")
    ELSE Returned(IF x.neg THEN 0 - x.whole ELSE x.whole)

(***************************************************************************)
(* sysstatus/utils.py: format_uptime                                       *)
(***************************************************************************)
SecondsPerDay == 86400
SecondsPerHour == 3600
SecondsPerMinute == 60

\* UptimeParts with the seconds appended unconditionally.
UptimePartsAlwaysSeconds(total) ==
    LET days == total \div SecondsPerDay
        remainder == total % SecondsPerDay
        hours == remainder \div SecondsPerHour
        remainder2 == remainder % SecondsPerHour
        minutes == remainder2 \div SecondsPerMinute
        seconds == remainder2 % SecondsPerMinute
        d == IF days # 0 THEN <<ToString(days) \o "d">> ELSE <<>>
        h == IF hours # 0 THEN <<ToString(hours) \o "h">> ELSE <<>>
        m == IF minutes # 0 THEN <<ToString(minutes) \o "m">> ELSE <<>>
    IN  Append(d \o h \o m, ToString(seconds) \o "s")

\* The parts list of format_uptime for an integer number of seconds.
UptimeParts(total) ==
    LET days == total \div SecondsPerDay
        remainder == total % SecondsPerDay
        hours == remainder \div SecondsPerHour
        remainder2 == remainder % SecondsPerHour
        minutes == remainder2 \div SecondsPerMinute
        seconds == remainder2 % SecondsPerMinute
        d == IF days # 0 THEN <<ToString(days) \o "d">> ELSE <<>>
        h == IF hours # 0 THEN <<ToString(hours) \o "h">> ELSE <<>>
        m == IF minutes # 0 THEN <<ToString(minutes) \o "m">> ELSE <<>>
        parts == d \o h \o m
    IN  IF seconds # 0 \/ parts = <<>>
        THEN Append(parts, ToString(seconds) \o "s")
        ELSE parts

format_uptime(seconds) ==
    LET total == FloatToInt(seconds)
    IN  IF total.status = "raise" THEN total
        ELSE Returned(Join(" ", UptimeParts(total.value)))

(***************************************************************************)
(* sysstatus/core.py: the local probes                                     *)
(***************************************************************************)
\* Lines 44-48: socket.gethostbyname(socket.gethostname()) and its except
\* clause, whose e is the exception of the hostname resolution.
HostnameFallback(sys) ==
    IF sys.hostname.status = "return" \/ ~Catches({"Exception"}, sys.hostname.exc)
    THEN sys.hostname
    ELSE Raised("SystemInfoError", "Cannot determine IP address: " \o sys.hostname.msg)

\* IpLookup that gives up when the socket method fails.
IpLookupNoFallback(sys) ==
    IF sys.socket.status = "return" \/ ~Catches({"Exception"}, sys.socket.exc)
    THEN [out |-> sys.socket, hostname |-> 0]
    ELSE [out |-> Raised("SystemInfoError", "Cannot determine IP address: " \o sys.socket.msg),
          hostname |-> 0]

\* Lines 37-48: the socket method, then hostname resolution. hostname
\* counts the calls of socket.gethostbyname.
IpLookup(sys) ==
    IF sys.socket.status = "return" \/ ~Catches({"Exception"}, sys.socket.exc)
    THEN [out |-> sys.socket, hostname |-> 0]
    ELSE [out |-> HostnameFallback(sys), hostname |-> 1]

get_ip_address(sys) == IpLookup(sys).out

\* Lines 61-65: the third token of the first line that starts with
\* "default" and has at least three tokens; None when there is none.
RECURSIVE DefaultGateway(_)
DefaultGateway(lines) ==
    IF lines = <<>> THEN None
    ELSE IF StartsWith(Strip(Head(lines)), "default") /\ Len(Split(Head(lines))) >= 3
         THEN Split(Head(lines))[3]
         ELSE DefaultGateway(Tail(lines))

\* get_router_ip: sys.ip_route is the outcome of subprocess.run(["ip", "route"]),
\* its value the lines of the captured standard output.
get_router_ip(sys) ==
    IF sys.ip_route.status = "return" THEN Returned(DefaultGateway(sys.ip_route.value))
    ELSE IF Catches({"subprocess.SubprocessError", "subprocess.TimeoutExpired"},
                    sys.ip_route.exc)
    THEN Returned(None)
    ELSE sys.ip_route

\* get_current_time: the n-th reading of the clock during one run.
get_current_time(sys, n) ==
    Returned(sys.clock[IF n <= Len(sys.clock) THEN n ELSE Len(sys.clock)])

\* UptimeTry that reads the last field of the line instead of the first.
UptimeTryLastField(sys) ==
    LET fields == Split(sys.uptime_line.value)
        uptime_seconds == PyFloat(fields[Len(fields)])
    IN  IF sys.uptime_line.status = "raise" THEN sys.uptime_line
        ELSE IF fields = <<>> THEN Raised("IndexError", "list index out of range")
        ELSE IF uptime_seconds.status = "raise" THEN uptime_seconds
        ELSE format_uptime(uptime_seconds.value)

\* Lines 96-98: the try block of get_uptime. sys.uptime_line is the outcome
\* of opening /proc/uptime and reading its first line.
UptimeTry(sys) ==
    LET fields == Split(sys.uptime_line.value)
        uptime_seconds == PyFloat(fields[1])
    IN  IF sys.uptime_line.status = "raise" THEN sys.uptime_line
        ELSE IF fields = <<>> THEN Raised("IndexError", "list index out of range")
        ELSE IF uptime_seconds.status = "raise" THEN uptime_seconds
        ELSE format_uptime(uptime_seconds.value)

get_uptime(sys) ==
    LET out == UptimeTry(sys)
    IN  IF ~sys.uptime_exists
        THEN Raised("SystemInfoError", "Cannot read system uptime: /proc/uptime not found")
        ELSE IF out.status = "raise" /\ Catches({"OSError", "ValueError", "IndexError"}, out.exc)
        THEN Raised("SystemInfoError", "Cannot parse uptime: " \o out.msg)
        ELSE out

(***************************************************************************)
(* sysstatus/core.py: SystemInfo.get_all_info                              *)
(***************************************************************************)
\* A dict is a sequence of <<key, value>> pairs in insertion order.
Keys(d) == [i \in 1..Len(d) |-> d[i][1]]

HasKey(d, k) == \E i \in 1..Len(d) : d[i][1] = k

Lookup(d, k) == d[CHOOSE i \in 1..Len(d) : d[i][1] = k][2]

\* d[k] = v: an existing key keeps its position, a new one goes last.
DictSet(d, k, v) ==
    IF HasKey(d, k)
    THEN [i \in 1..Len(d) |-> IF d[i][1] = k THEN <<k, v>> ELSE d[i]]
    ELSE Append(d, <<k, v>>)

\* How often each probe, and the transport, has been invoked.
NoCalls ==
    [time |-> 0, weather |-> 0, ip |-> 0, router |-> 0, uptime |-> 0, transport |-> 0,
     hostname |-> 0]

Count(calls, probe, n) == [calls EXCEPT ![probe] = @ + n]

\* The state of a run of get_all_info: the map so far, the exception that
\* escaped (status "raise") if one did, and the probe invocations.
Running(info, calls) ==
    [status |-> "return", info |-> info, exc |-> "", msg |-> "", calls |-> calls]

Escaped(info, out, calls) ==
    [status |-> "raise", info |-> info, exc |-> out.exc, msg |-> out.msg, calls |-> calls]

\* TryProbe with an except clause that logs the failure and stores nothing.
TryProbeLogOnly(run, label, probe, out, classes) ==
    IF run.status = "raise" THEN run
    ELSE IF out.status = "return"
    THEN Running(DictSet(run.info, label, out.value), Count(run.calls, probe, 1))
    ELSE IF Catches(classes, out.exc)
    THEN Running(run.info, Count(run.calls, probe, 1))
    ELSE Escaped(run.info, out, Count(run.calls, probe, 1))

\* One `try: info[label] = probe() / except classes as e: info[label] =
\* f"Error: {e}"` block; it is not reached once an exception has escaped.
TryProbe(run, label, probe, out, classes) ==
    IF run.status = "raise" THEN run
    ELSE IF out.status = "return"
    THEN Running(DictSet(run.info, label, out.value), Count(run.calls, probe, 1))
    ELSE IF Catches(classes, out.exc)
    THEN Running(DictSet(run.info, label, "Error: " \o out.msg), Count(run.calls, probe, 1))
    ELSE Escaped(run.info, out, Count(run.calls, probe, 1))

\* RouterText that stores whatever the probe returned.
RouterTextUnchecked(out) == out

\* Line 176: router_ip if router_ip else "Not available"
RouterText(out) ==
    IF out.status = "return" /\ ~Truthy(out.value) THEN Returned("Not available") ELSE out

\* Line 159: info = {"Date/Time": self.get_current_time()}
TimeStep(sys, calls) ==
    Running(<< <<"Date/Time", get_current_time(sys, calls.time + 1).value>> >>,
            Count(calls, "time", 1))

\* Lines 161-166, given what get_weather() did.
WeatherTried(run, w) ==
    TryProbe([run EXCEPT !.calls = Count(@, "transport", w.transport)],
             "Weather", "weather", w.out, {"WeatherAPIError"})

WeatherStep(run, env, resp, include_weather) ==
    IF include_weather THEN WeatherTried(run, get_weather(env, resp, None)) ELSE run

\* Lines 168-172
IpStep(run, sys) ==
    IF run.status = "raise" THEN run
    ELSE TryProbe([run EXCEPT !.calls = Count(@, "hostname", IpLookup(sys).hostname)],
                  "IP Address", "ip", get_ip_address(sys), {"SystemInfoError"})

\* Lines 174-179
RouterStep(run, sys) ==
    TryProbe(run, "Router IP", "router", RouterText(get_router_ip(sys)), {"Exception"})

\* UptimeStep with a bare `except:` clause.
UptimeStepBareExcept(run, sys) ==
    TryProbe(run, "Uptime", "uptime", get_uptime(sys), {"BaseException"})

\* Lines 181-185
UptimeStep(run, sys) ==
    TryProbe(run, "Uptime", "uptime", get_uptime(sys), {"SystemInfoError"})

\* get_all_info with the weather block after the IP address block.
get_all_info_WeatherAfterIp(env, resp, sys, include_weather, calls) ==
    UptimeStep(
        RouterStep(
            WeatherStep(IpStep(TimeStep(sys, calls), sys), env, resp, include_weather),
            sys),
        sys)

\* get_all_info(include_weather), started with the invocation counts calls.
get_all_info(env, resp, sys, include_weather, calls) ==
    UptimeStep(
        RouterStep(
            IpStep(
                WeatherStep(TimeStep(sys, calls), env, resp, include_weather),
                sys),
            sys),
        sys)

(***************************************************************************)
(* sysstatus/cli.py: main                                                  *)
(***************************************************************************)
\* info_data["Weather"] = text on the map of a finished get_all_info
MergeWeather(run, text) ==
    IF run.status = "raise" THEN run
    ELSE Running(DictSet(run.info, "Weather", text), run.calls)

\* OverrideFailed without the except clause: the failure goes on to main's
\* outer handlers.
OverrideFailedUncaught(env, resp, sys, failed) == failed

\* Lines 148-149: the except clause of the city-override path.
OverrideFailed(env, resp, sys, failed) ==
    IF ~Catches({"Exception"}, failed.exc) THEN failed
    ELSE MergeWeather(get_all_info(env, resp, sys, FALSE, failed.calls),
                      "Error: " \o failed.msg)

\* Lines 145-146, given the map of line 144 and what get_weather(city) did.
OverrideWeather(first, w) ==
    IF first.status = "raise" THEN first
    ELSE IF w.out.status = "raise"
    THEN Escaped(first.info, w.out,
                 Count(Count(first.calls, "weather", 1), "transport", w.transport))
    ELSE Running(DictSet(first.info, "Weather", w.out.value),
                 Count(Count(first.calls, "weather", 1), "transport", w.transport))

\* Lines 143-149, given the outcome of the try block.
OverrideHandled(env, resp, sys, tried) ==
    IF tried.status = "return" THEN tried ELSE OverrideFailed(env, resp, sys, tried)

\* Lines 142-151: the map main displays. With a city override (and weather
\* not disabled) the non-weather map is fetched first and the weather is
\* stored into it; any Exception on that path is answered by fetching the
\* non-weather map again and storing the error text.
CollectInfo(env, resp, sys, no_weather, city) ==
    IF ~no_weather /\ Truthy(city)
    THEN OverrideHandled(env, resp, sys,
             OverrideWeather(get_all_info(env, resp, sys, FALSE, NoCalls),
                             get_weather(env, resp, city)))
    ELSE get_all_info(env, resp, sys, ~no_weather, NoCalls)

\* Lines 153-167: the table on standard output and exit code 0, or a
\* message on standard error and exit code 1.
Report(run) ==
    IF run.status = "return"
    THEN [status |-> "return", exit |-> 0, table |-> run.info, stderr |-> "",
          exc |-> "", msg |-> "", calls |-> run.calls]
    ELSE IF Catches({"KeyboardInterrupt"}, run.exc)
    THEN [status |-> "return", exit |-> 1, table |-> <<>>,
          stderr |-> "\nOperation cancelled by user",
          exc |-> "", msg |-> "", calls |-> run.calls]
    ELSE IF Catches({"Exception"}, run.exc)
    THEN [status |-> "return", exit |-> 1, table |-> <<>>,
          stderr |-> "Error: " \o run.msg,
          exc |-> "", msg |-> "", calls |-> run.calls]
    ELSE [status |-> "raise", exit |-> 1, table |-> <<>>, stderr |-> "",
          exc |-> run.exc, msg |-> run.msg, calls |-> run.calls]

main(env, resp, sys, no_weather, city) == Report(CollectInfo(env, resp, sys, no_weather, city))

(***************************************************************************)
(* sysstatus/utils.py: setup_logging, and its callers                      *)
(***************************************************************************)
LowerCase == "abcdefghijklmnopqrstuvwxyz"

UpperCase == "ABCDEFGHIJKLMNOPQRSTUVWXYZ"

\* str.upper()
RECURSIVE Upper(_)
Upper(s) ==
    IF s = "" THEN ""
    ELSE LET c == SubSeq(s, 1, 1)
         IN  (IF \E i \in 1..26 : SubSeq(LowerCase, i, i) = c
              THEN LET i == CHOOSE i \in 1..26 : SubSeq(LowerCase, i, i) = c
                   IN  SubSeq(UpperCase, i, i)
              ELSE c) \o Upper(SubSeq(s, 2, Len(s)))

\* The level names of the logging module, as getattr(logging, name) finds them.
LevelNumber ==
    [NOTSET |-> 0, DEBUG |-> 10, INFO |-> 20, WARNING |-> 30, WARN |-> 30,
     ERROR |-> 40, CRITICAL |-> 50, FATAL |-> 50]

\* Before the first logging.getLogger("sysstatus") of the process there is
\* no such logger. objects counts the logger objects of that name made.
FreshLogger == [objects |-> 0, level |-> 0, handlers |-> 0]

\* logging.getLogger("sysstatus"): the logger of that name, made on first
\* use with level NOTSET and no handler.
getLogger(lg) == IF lg.objects = 0 THEN [objects |-> 1, level |-> 0, handlers |-> 0] ELSE lg

\* setup_logging that adds its handler on every call.
setup_logging_AddsHandler(lg, level) ==
    IF Upper(level) \notin DOMAIN LevelNumber
    THEN [out |-> Raised("AttributeError",
                         "module 'logging' has no attribute '" \o Upper(level) \o "'"),
          logger |-> getLogger(lg)]
    ELSE [out |-> Returned(getLogger(lg).objects),
          logger |-> [getLogger(lg) EXCEPT !.level = LevelNumber[Upper(level)],
                                           !.handlers = @ + 1]]

\* setup_logging(level): what the call does (it returns the logger, here by
\* the number of the object) and the logger after it. The level name is
\* looked up before the handler is added.
setup_logging(lg, level) ==
    IF Upper(level) \notin DOMAIN LevelNumber
    THEN [out |-> Raised("AttributeError",
                         "module 'logging' has no attribute '" \o Upper(level) \o "'"),
          logger |-> getLogger(lg)]
    ELSE [out |-> Returned(getLogger(lg).objects),
          logger |-> [getLogger(lg) EXCEPT !.level = LevelNumber[Upper(level)],
                                           !.handlers = IF @ = 0 THEN 1 ELSE @]]

\* core.py line 26: self.logger = setup_logging()
SystemInfoLogger(lg) == setup_logging(lg, "INFO").logger

\* The choices and the default of --log-level.
LogLevelChoices == {"DEBUG", "INFO", "WARNING", "ERROR", "CRITICAL"}

DefaultLogLevel == "WARNING"

\* cli.py lines 129 and 136: the logger after setup_logging(log_level) and
\* SystemInfo(config).
main_logger(lg, log_level) == SystemInfoLogger(setup_logging(lg, log_level).logger)

(***************************************************************************)
(* The environment of a run                                                *)
(***************************************************************************)
\* A dict body from its four schema fields; a field that is Absent is left
\* out of the dict.
Absent == [t |-> "absent"]

Body(cod, message, main_, weather) ==
    LET all == [cod |-> cod, message |-> message, main |-> main_, weather |-> weather]
    IN  JObj([k \in {f \in DOMAIN all : all[f] # Absent} |-> all[k]])

Described(text) == JObj([description |-> JStr(text)])

NoFields == [k \in {} |-> JNull]

CodValues == {Absent, JNum("200"), JNum("404")}

MessageValues == {Absent, JStr("city not found")}

MainValues == {Absent, JStr("n/a"), JObj([temp |-> JNull]), JObj([temp |-> JNum("25.5")])}

WeatherValues ==
    {Absent, JList(<<>>), JList(<<JObj(NoFields)>>),
     JList(<<Described("clear sky"), Described("rain")>>),
     JList(<<JStr("clear sky")>>), JObj([id |-> JNum("800")]), JNum("800")}

\* What requests.get and the response's methods do. json is the outcome
\* of response.json(): the exception of an unparsable body is a
\* json.JSONDecodeError (a ValueError) with requests before 2.27 and a
\* requests.JSONDecodeError (a RequestException and a ValueError) since.
Answer(transport, error, http_status, json) ==
    [transport |-> transport, error |-> error, http_status |-> http_status, json |-> json]

JsonErrors ==
    {Raised(c, "Expecting value: line 1 column 1 (char 0)") :
        c \in {"json.JSONDecodeError", "requests.JSONDecodeError"}}

ErrorBody == Returned(Body(JNum("404"), JStr("city not found"), Absent, Absent))

TransportFailures ==
    {Answer("requests.ConnectionError", "Connection refused", 0, ErrorBody),
     Answer("requests.Timeout", "Read timed out", 0, ErrorBody)}

HttpFailures ==
    {Answer("ok", "", st, j) : st \in {404, 500}, j \in {ErrorBody} \cup JsonErrors}

Unparsable == {Answer("ok", "", 200, j) : j \in JsonErrors}

NonDictBodies == {Answer("ok", "", 200, Returned(j)) : j \in {JList(<<>>), JNull}}

DictBodies ==
    {Answer("ok", "", 200, Returned(Body(c, m, t, w))) :
        c \in CodValues, m \in MessageValues, t \in MainValues, w \in WeatherValues}

Responses == TransportFailures \cup HttpFailures \cup Unparsable \cup NonDictBodies \cup DictBodies

\* One response of each kind, for the runs that vary the local system.
FewResponses ==
    {Answer("requests.Timeout", "Read timed out", 0, ErrorBody),
     Answer("ok", "", 500, ErrorBody),
     Answer("ok", "", 200, ErrorBody),
     Answer("ok", "", 200, Returned(JList(<<>>))),
     Answer("ok", "", 200,
            Returned(Body(JNum("200"), Absent, JObj([temp |-> JNum("25.5")]),
                          JList(<<Described("clear sky")>>))))}

Environ(key, city, timeout_, url) ==
    [WEATHER_API_KEY |-> key, DEFAULT_CITY |-> city,
     REQUEST_TIMEOUT |-> timeout_, WEATHER_API_URL |-> url]

\* The API key varied with everything else at its default.
KeyEnvirons == {Environ(k, None, None, None) : k \in {None, "", "test_key"}}

Environs ==
    {Environ(k, c, t, u) :
        k \in {None, "", "test_key"}, c \in {None, "TestCity"},
        t \in {None, "abc"}, u \in {None, "http://weather.test/{city}?zip={zip}"}}

ConfiguredEnviron == Environ("test_key", None, None, None)

Clock == <<"2023-12-01 12:00:00", "2023-12-01 12:00:01">>

System(socket, hostname, ip_route, uptime_exists, uptime_line) ==
    [socket |-> socket, hostname |-> hostname, ip_route |-> ip_route,
     uptime_exists |-> uptime_exists, uptime_line |-> uptime_line, clock |-> Clock]

SocketOutcomes == {Returned("192.168.1.100"), Raised("OSError", "Network is unreachable")}

HostnameOutcomes ==
    {Returned("127.0.1.1"), Raised("socket.gaierror", "Name or service not known")}

RouteOutcomes ==
    {Returned(<<"default via 192.168.1.1 dev eth0 proto dhcp",
                "192.168.1.0/24 dev eth0 proto kernel scope link">>),
     Returned(<<"192.168.1.0/24 dev eth0 proto kernel scope link">>),
     Raised("subprocess.CalledProcessError",
            "Command '['ip', 'route']' returned non-zero exit status 1."),
     Raised("subprocess.TimeoutExpired",
            "Command '['ip', 'route']' timed out after 5 seconds"),
     Raised("FileNotFoundError", "[Errno 2] No such file or directory: 'ip'")}

UptimeLines ==
    {Returned("90125.2 180000.55"), Returned(""), Returned("soon 1.0"),
     Raised("PermissionError", "[Errno 13] Permission denied: '/proc/uptime'")}

NominalSystem ==
    System(Returned("192.168.1.100"), Returned("127.0.1.1"),
           Returned(<<"default via 192.168.1.1 dev eth0 proto dhcp">>),
           TRUE, Returned("90125.2 180000.55"))

Systems ==
    {System(s, h, r, e, u) :
        s \in SocketOutcomes, h \in HostnameOutcomes, r \in RouteOutcomes,
        e \in BOOLEAN, u \in UptimeLines}

\* A success body as the service sends it, with the name of the place it
\* resolved the query to and more than one weather element.
NamedAnswer ==
    Answer("ok", "", 200,
           Returned(JObj([cod |-> JNum("200"), name |-> JStr("Gotham"),
                          main |-> JObj([temp |-> JNum("-3.14159"),
                                         feels_like |-> JNum("-7.0")]),
                          weather |-> JList(<<Described("mist"), Described("rain")>>)])))

\* Success bodies whose temperature or description is there but falsy, next
\* to one with both ordinary and those with one of them null.
FalsyAnswers ==
    {Answer("ok", "", 200,
            Returned(Body(JNum("200"), Absent, JObj([temp |-> t]),
                          JList(<<JObj([description |-> d])>>)))) :
        t \in {JNum("0"), JNum("0.0"), JNum("25.5"), JNull},
        d \in {JStr(""), JStr("mist"), JNull}}

CityEnvirons == {Environ("test_key", c, None, None) : c \in {None, "TestCity"}}

\* Outputs of `ip route`, as the lines of its standard output.
RouteTables ==
    {<<>>,
     <<"10.8.0.0/24 dev tun0 proto kernel scope link",
       "default via 192.168.1.1 dev eth0 metric 100",
       "default via 10.0.0.1 dev wlan0 metric 600">>,
     <<"  default via 172.17.0.1 dev docker0">>,
     <<"default dev ppp0 scope link">>,
     <<"defaultroute via 10.9.9.9 dev eth0">>,
     <<"default via", "default via 192.168.1.1 dev eth0">>}

\* First lines of /proc/uptime.
ProcUptimeLines ==
    {"90125.2", "90125.2 7.0", "0.00 0.00", "59.99 1.00", "3600.5 12.25", "   ", "up 3 days"}

\* The local system varied one probe at a time around the nominal one.
ProbeSystems ==
    {[NominalSystem EXCEPT !.socket = s, !.hostname = h] :
        s \in SocketOutcomes \cup {Raised("Exception", "Network error")},
        h \in HostnameOutcomes \cup {Raised("Exception", "Hostname resolution failed")}}
    \cup {[NominalSystem EXCEPT !.ip_route = Returned(t)] : t \in RouteTables}
    \cup {[NominalSystem EXCEPT !.ip_route = r] : r \in RouteOutcomes}
    \cup {[NominalSystem EXCEPT !.uptime_line = Returned(l)] : l \in ProcUptimeLines}
    \cup {[NominalSystem EXCEPT !.uptime_exists = FALSE]}

CityArgs == {None, "", "Paris"}

(***************************************************************************)
(* The state machine: calls of the public interface                        *)
(***************************************************************************)
NoCall ==
    [op |-> "none", city |-> None, flag |-> FALSE, status |-> "", text |-> "",
     info |-> <<>>, exc |-> "", msg |-> "", exit |-> 0, stderr |-> "", calls |-> NoCalls,
     level |-> None, object |-> 0]

\* A run starts in one of five families of environments: every response
\* against every API key, every configuration against one response of each
\* kind, every local system against one response of each kind, the local
\* system varied one probe at a time against a success response, and the
\* success bodies with falsy fields against a nominal system.
Init ==
    /\ \/ environ \in KeyEnvirons /\ response \in Responses /\ system = NominalSystem
       \/ environ \in Environs /\ response \in FewResponses /\ system = NominalSystem
       \/ environ = ConfiguredEnviron /\ response \in FewResponses /\ system \in Systems
       \/ environ \in CityEnvirons /\ response = NamedAnswer /\ system \in ProbeSystems
       \/ environ \in CityEnvirons /\ response \in FalsyAnswers /\ system = NominalSystem
    /\ argument = Float(FALSE, 0, "")
    /\ logger = SystemInfoLogger(FreshLogger)    \* SystemInfo(config) has been constructed
    /\ last = NoCall

\* What a call of get_weather leaves in last.
WeatherCall(city, r) ==
    [op |-> "get_weather", city |-> city, flag |-> FALSE, status |-> r.out.status,
     text |-> IF r.out.status = "return" THEN r.out.value ELSE "", info |-> <<>>,
     exc |-> r.out.exc, msg |-> r.out.msg, exit |-> 0, stderr |-> "",
     calls |-> Count(Count(NoCalls, "weather", 1), "transport", r.transport),
     level |-> None, object |-> 0]

\* What a call of get_all_info leaves in last.
InfoCall(include_weather, r) ==
    [op |-> "get_all_info", city |-> None, flag |-> include_weather, status |-> r.status,
     text |-> "", info |-> IF r.status = "return" THEN r.info ELSE <<>>,
     exc |-> r.exc, msg |-> r.msg, exit |-> 0, stderr |-> "", calls |-> r.calls,
     level |-> None, object |-> 0]

\* What a call of one of the local probes leaves in last.
ProbeCall(op, out, calls) ==
    [op |-> op, city |-> None, flag |-> FALSE, status |-> out.status,
     text |-> IF out.status = "return" THEN out.value ELSE "", info |-> <<>>,
     exc |-> out.exc, msg |-> out.msg, exit |-> 0, stderr |-> "", calls |-> calls,
     level |-> None, object |-> 0]

\* What a run of main leaves in last.
MainCall(no_weather, city, log_level, r) ==
    [op |-> "main", city |-> city, flag |-> no_weather, status |-> r.status,
     text |-> "", info |-> r.table, exc |-> r.exc, msg |-> r.msg,
     exit |-> r.exit, stderr |-> r.stderr, calls |-> r.calls,
     level |-> log_level, object |-> 0]

\* sys_info.get_weather(city)
GetWeather(city) ==
    /\ last.op # "main"
    /\ last' = WeatherCall(city, get_weather(environ, response, city))
    /\ UNCHANGED <<environ, response, system, argument, logger>>

\* sys_info.get_all_info(include_weather)
GetAllInfo(include_weather) ==
    /\ last.op # "main"
    /\ last' = InfoCall(include_weather,
                        get_all_info(environ, response, system, include_weather, NoCalls))
    /\ UNCHANGED <<environ, response, system, argument, logger>>

\* sys_info.get_ip_address()
GetIpAddress ==
    /\ last.op # "main"
    /\ last' = ProbeCall("get_ip_address", get_ip_address(system),
                         Count(Count(NoCalls, "ip", 1), "hostname", IpLookup(system).hostname))
    /\ UNCHANGED <<environ, response, system, argument, logger>>

\* sys_info.get_router_ip()
GetRouterIp ==
    /\ last.op # "main"
    /\ last' = ProbeCall("get_router_ip", get_router_ip(system), Count(NoCalls, "router", 1))
    /\ UNCHANGED <<environ, response, system, argument, logger>>

\* sys_info.get_uptime()
GetUptime ==
    /\ last.op # "main"
    /\ last' = ProbeCall("get_uptime", get_uptime(system), Count(NoCalls, "uptime", 1))
    /\ UNCHANGED <<environ, response, system, argument, logger>>

\* sysstatus [--no-weather] [--city CITY] [--log-level LEVEL]: one run of
\* the command, in a process that has called no probe yet.
Main(no_weather, city, log_level) ==
    /\ last.op \in {"none", "setup_logging", "SystemInfo"}
    /\ last' = MainCall(no_weather, city, log_level,
                        main(environ, response, system, no_weather, city))
    /\ logger' = main_logger(logger, log_level)
    /\ UNCHANGED <<environ, response, system, argument>>

\* A process that uses SystemInfo as a library calls its methods in any
\* order; a run of the command ends the process.
Next ==
    \/ \E city \in CityArgs : GetWeather(city)
    \/ \E include_weather \in BOOLEAN : GetAllInfo(include_weather)
    \/ GetIpAddress
    \/ GetRouterIp
    \/ GetUptime
    \/ \E no_weather \in BOOLEAN, city \in CityArgs : Main(no_weather, city, DefaultLogLevel)

Spec == Init /\ [][Next]_vars

(***************************************************************************)
(* Direct calls of sysstatus.utils.format_uptime                           *)
(***************************************************************************)
\* Every number of seconds up to MaxSweep is tried, and the neighbourhood
\* of every unit boundary beyond it.
MaxSweep == 125

BoundarySeconds ==
    {3599, 3600, 3601, 3660, 3661, 7200, 86399, 86400, 86401, 86460, 90000, 90060,
     90125, 172800, 604799, 31536000}

UptimeArguments ==
    {Float(FALSE, whole, frac) :
        whole \in (0..MaxSweep) \cup BoundarySeconds, frac \in {"", "2", "999999"}}
    \cup {Float(TRUE, whole, frac) : whole \in {0, 1, 86400}, frac \in {"5"}}

UptimeInit ==
    /\ environ = ConfiguredEnviron
    /\ response = NamedAnswer
    /\ system = NominalSystem
    /\ argument \in UptimeArguments
    /\ logger = FreshLogger
    /\ last = NoCall

\* format_uptime(argument)
FormatUptime ==
    /\ last' = ProbeCall("format_uptime", format_uptime(argument), NoCalls)
    /\ UNCHANGED <<environ, response, system, argument, logger>>

UptimeNext == FormatUptime

UptimeSpec == UptimeInit /\ [][UptimeNext]_vars

(***************************************************************************)
(* Runs that the user interrupts                                           *)
(***************************************************************************)
\* Ctrl-C while a call is waiting: the call raises KeyboardInterrupt.
Interrupt == Raised("KeyboardInterrupt", "")

\* The interruption arrives in one of the local probes.
InterruptedSystems ==
    {[NominalSystem EXCEPT !.socket = Interrupt],
     [NominalSystem EXCEPT !.socket = Raised("OSError", "Network is unreachable"),
                           !.hostname = Interrupt],
     [NominalSystem EXCEPT !.ip_route = Interrupt],
     [NominalSystem EXCEPT !.uptime_line = Interrupt]}

\* The interruption arrives in requests.get.
InterruptedAnswer == Answer("KeyboardInterrupt", "", 0, ErrorBody)

InterruptInit ==
    /\ environ \in KeyEnvirons
    /\ \/ response \in FewResponses /\ system \in InterruptedSystems
       \/ response = InterruptedAnswer /\ system \in ProbeSystems \cup InterruptedSystems
    /\ argument = Float(FALSE, 0, "")
    /\ logger = SystemInfoLogger(FreshLogger)
    /\ last = NoCall

InterruptNext ==
    \/ \E include_weather \in BOOLEAN : GetAllInfo(include_weather)
    \/ \E no_weather \in BOOLEAN, city \in CityArgs : Main(no_weather, city, DefaultLogLevel)

InterruptSpec == InterruptInit /\ [][InterruptNext]_vars

(***************************************************************************)
(* Constructions of sysstatus.config.Config                                *)
(***************************************************************************)
\* The env files on disk, each the list of its KEY=value lines; a path that
\* names no file has no lines.
FileContent(path) ==
    CASE path = "full.env" ->
            << <<"WEATHER_API_KEY", "test_api_key_12345">>, <<"DEFAULT_CITY", "FileCity">>,
               <<"REQUEST_TIMEOUT", "5">>,
               <<"WEATHER_API_URL", "http://test.api.com/weather?q={city}&appid={api_key}">> >>
      [] path = "city.env" -> << <<"DEFAULT_CITY", "OtherCity">> >>
      [] path = ".env" ->
            << <<"WEATHER_API_KEY", "auto_discovered">>, <<"REQUEST_TIMEOUT", "15">> >>
      [] OTHER -> <<>>

\* load_dotenv with override=True.
RECURSIVE load_dotenv_Override(_, _)
load_dotenv_Override(env, pairs) ==
    IF pairs = <<>> THEN env
    ELSE load_dotenv_Override([env EXCEPT ![Head(pairs)[1]] = Head(pairs)[2]], Tail(pairs))

\* load_dotenv(path) of python-dotenv, called without override: a variable
\* of the file is put into os.environ unless os.environ already has it.
RECURSIVE load_dotenv(_, _)
load_dotenv(env, pairs) ==
    IF pairs = <<>> THEN env
    ELSE load_dotenv(IF env[Head(pairs)[1]] = None
                     THEN [env EXCEPT ![Head(pairs)[1]] = Head(pairs)[2]]
                     ELSE env,
                     Tail(pairs))

\* Lines 18-24: the file Config.__init__ loads, None when it loads none.
\* env_path is what _find_env_file() returns.
LoadedFile(env_file, env_path) ==
    IF Truthy(env_file) THEN env_file
    ELSE IF Truthy(env_path) THEN env_path
    ELSE None

\* Config whose load replaces the variables os.environ already has.
ConfigOverriding(env, env_file, env_path) ==
    IF LoadedFile(env_file, env_path) = None THEN env
    ELSE load_dotenv_Override(env, FileContent(LoadedFile(env_file, env_path)))

\* Config(env_file): os.environ after the construction.
Config(env, env_file, env_path) ==
    IF LoadedFile(env_file, env_path) = None THEN env
    ELSE load_dotenv(env, FileContent(LoadedFile(env_file, env_path)))

EnvFileArgs == {None, "", "full.env", "city.env", "missing.env"}

FoundPaths == {None, ".env"}

\* What a construction of Config leaves in last: the env_file argument
\* (text), whether one was given (flag) and the lines of the file loaded (info).
ConfigCall(env_file, env_path) ==
    [NoCall EXCEPT !.op = "Config", !.flag = Truthy(env_file), !.text = env_file,
                   !.info = IF LoadedFile(env_file, env_path) = None THEN <<>>
                            ELSE FileContent(LoadedFile(env_file, env_path))]

\* The process environments a Config is constructed in.
ConfigInit ==
    /\ environ \in Environs \cup {Environ("env_key", "EnvCity", "30", None)}
    /\ response = NamedAnswer
    /\ system = NominalSystem
    /\ argument = Float(FALSE, 0, "")
    /\ logger = FreshLogger
    /\ last = NoCall

\* Config(env_file), with env_path what the search for a .env file finds.
NewConfig(env_file, env_path) ==
    /\ environ' = Config(environ, env_file, env_path)
    /\ last' = ConfigCall(env_file, env_path)
    /\ UNCHANGED <<response, system, argument, logger>>

ConfigNext == \E env_file \in EnvFileArgs, env_path \in FoundPaths : NewConfig(env_file, env_path)

ConfigSpec == ConfigInit /\ [][ConfigNext]_vars

(***************************************************************************)
(* The "sysstatus" logger of a process                                     *)
(***************************************************************************)
\* Level names a caller of setup_logging passes: the documented ones, in
\* lower and mixed case, an alias, and names the logging module has not.
LevelArgs ==
    {"DEBUG", "INFO", "WARNING", "ERROR", "CRITICAL", "debug", "Warn", "INVALID_LEVEL",
     "verbose"}

\* What a call of setup_logging leaves in last: the level passed and the
\* logger object returned (0 when none is).
LoggingCall(level, r) ==
    [NoCall EXCEPT !.op = "setup_logging", !.level = level, !.status = r.out.status,
                   !.exc = r.out.exc, !.msg = r.out.msg,
                   !.object = IF r.out.status = "return" THEN r.out.value ELSE 0]

\* What a construction of SystemInfo leaves in last: whether a config was
\* given (flag) and the logger object it keeps.
SystemInfoCall(config_given, lg) ==
    [NoCall EXCEPT !.op = "SystemInfo", !.flag = config_given, !.status = "return",
                   !.level = "INFO", !.object = lg.objects]

\* A process that has not touched the logging module yet.
LoggingInit ==
    /\ environ \in KeyEnvirons
    /\ response \in FewResponses
    /\ system = NominalSystem
    /\ argument = Float(FALSE, 0, "")
    /\ logger = FreshLogger
    /\ last = NoCall

\* setup_logging(level)
SetupLogging(level) ==
    /\ logger' = setup_logging(logger, level).logger
    /\ last' = LoggingCall(level, setup_logging(logger, level))
    /\ UNCHANGED <<environ, response, system, argument>>

\* SystemInfo(config), or SystemInfo() which constructs a Config() of its
\* own; env_path is what the search for a .env file finds.
NewSystemInfo(config_given, env_path) ==
    /\ environ' = IF config_given THEN environ ELSE Config(environ, None, env_path)
    /\ logger' = SystemInfoLogger(logger)
    /\ last' = SystemInfoCall(config_given, SystemInfoLogger(logger))
    /\ UNCHANGED <<response, system, argument>>

LoggingNext ==
    \/ \E level \in LevelArgs : SetupLogging(level)
    \/ \E config_given \in BOOLEAN, env_path \in FoundPaths : NewSystemInfo(config_given, env_path)
    \/ \E no_weather \in BOOLEAN, city \in CityArgs, log_level \in LogLevelChoices :
            Main(no_weather, city, log_level)

LoggingSpec == LoggingInit /\ [][LoggingNext]_vars

(***************************************************************************)
(* Properties of the aggregator and of the weather probe                   *)
(***************************************************************************)
IsError(text) == StartsWith(text, "Error: ")

ExpectedLabels(include_weather) ==
    IF include_weather
    THEN <<"Date/Time", "Weather", "IP Address", "Router IP", "Uptime">>
    ELSE <<"Date/Time", "IP Address", "Router IP", "Uptime">>

Range(seq) == {seq[i] : i \in 1..Len(seq)}

\* What each probe does in the current environment, called on its own.
WeatherOutcome == get_weather(environ, response, None).out
IpOutcome == get_ip_address(system)
RouterOutcome == RouterText(get_router_ip(system))
UptimeOutcome == get_uptime(system)

ProbeOutcome(label) ==
    CASE label = "Weather" -> WeatherOutcome
      [] label = "IP Address" -> IpOutcome
      [] label = "Router IP" -> RouterOutcome
      [] label = "Uptime" -> UptimeOutcome

FailingProbes(include_weather) ==
    {label \in Range(ExpectedLabels(include_weather)) \ {"Date/Time"} :
        ProbeOutcome(label).status = "raise"}

AggregatorCalled == last.op = "get_all_info"

AggregatorReturned == last.op = "get_all_info" /\ last.status = "return"

\* C1: whatever the probes do, get_all_info does not raise and returns a
\* map with an entry for every label of the configured probe set.
C1_AggregatorNeverRaises ==
    AggregatorCalled =>
        /\ last.status = "return"
        /\ Range(Keys(last.info)) = Range(ExpectedLabels(last.flag))

\* C2: when exactly one probe fails and the others succeed, get_all_info
\* returns a map with exactly the configured labels in which the failed
\* probe's entry is "Error: " and its message, and every other entry is
\* what its probe returned.
C2_FailureIsolation ==
    (AggregatorCalled /\ Cardinality(FailingProbes(last.flag)) = 1) =>
        /\ last.status = "return"
        /\ Range(Keys(last.info)) = Range(ExpectedLabels(last.flag))
        /\ \A label \in Range(ExpectedLabels(last.flag)) \ {"Date/Time"} :
              /\ HasKey(last.info, label)
              /\ IF ProbeOutcome(label).status = "raise"
                 THEN Lookup(last.info, label) = "Error: " \o ProbeOutcome(label).msg
                 ELSE /\ Lookup(last.info, label) = ProbeOutcome(label).value
                      /\ ~IsError(Lookup(last.info, label))

\* C3: a map returned by get_all_info is ordered Date/Time, Weather (only
\* when requested), IP Address, Router IP, Uptime, whatever succeeded or
\* failed: the order is decided by the include_weather flag alone, so two
\* calls with the same flag give the same order.
C3_LabelOrder ==
    AggregatorReturned => Keys(last.info) = ExpectedLabels(last.flag)

C3_Witness ==
    /\ AggregatorReturned /\ last.flag
    /\ IsError(Lookup(last.info, "Weather"))
    /\ IsError(Lookup(last.info, "Uptime"))
    /\ ~IsError(Lookup(last.info, "IP Address"))

\* The city-override path of main: --city given and weather not disabled.
OverrideRun == last.op = "main" /\ ~last.flag /\ Truthy(last.city)

\* C4: the map main displays on the city-override path has the labels of
\* the combined path get_all_info(include_weather=True), in the same order.
C4_OverrideSameShape ==
    (OverrideRun /\ last.exit = 0) => Keys(last.info) = ExpectedLabels(TRUE)

\* C5: a map that get_all_info returns, or that main displays, holds a
\* Weather entry exactly when weather was requested, whether or not the
\* weather probe succeeded; when weather is not requested the map has the
\* four non-weather entries and the weather probe is not invoked.
WeatherRequested ==
    \/ last.op = "get_all_info" /\ last.flag
    \/ last.op = "main" /\ ~last.flag

MapProduced ==
    \/ last.op = "get_all_info" /\ last.status = "return"
    \/ last.op = "main" /\ last.status = "return" /\ last.exit = 0

C5_WeatherIffRequested ==
    /\ MapProduced => (HasKey(last.info, "Weather") <=> WeatherRequested)
    /\ (MapProduced /\ ~WeatherRequested) => Keys(last.info) = ExpectedLabels(FALSE)
    /\ (last.op \in {"get_all_info", "main"} /\ ~WeatherRequested) =>
            last.calls.weather = 0 /\ last.calls.transport = 0

C5_Witness ==
    /\ OverrideRun /\ last.exit = 0
    /\ HasKey(last.info, "Weather")
    /\ IsError(Lookup(last.info, "Weather"))

\* C6: with no API key in the configuration, get_weather raises
\* WeatherAPIError("Weather API key not configured") and the transport is
\* not invoked, whatever the city argument.
C6_NoKeyNoRequest ==
    (last.op = "get_weather" /\ environ.WEATHER_API_KEY = None) =>
        /\ last.status = "raise"
        /\ last.exc = "WeatherAPIError"
        /\ last.msg = "Weather API key not configured"
        /\ last.calls.transport = 0

C6_Witness ==
    /\ last.op = "get_weather" /\ environ.WEATHER_API_KEY = None
    /\ last.city = "Paris"
    /\ response.transport = "ok" /\ response.http_status = 200
    /\ last.status = "raise"

\* C7: get_weather raises nothing but WeatherAPIError, whatever the
\* response body and the configured URL template.
C7_OnlyWeatherAPIError ==
    (last.op = "get_weather" /\ last.status = "raise") => last.exc = "WeatherAPIError"

\* The cases of get_weather that C8, C9 and C10 are about: the default URL
\* template and timeout, and a response that, when it is transported and
\* parsed, is a dict whose weather field, if any, is a list of dicts.
Body_ == response.json.value

WeatherIsListOfDicts ==
    "weather" \in DOMAIN Body_.v =>
        /\ Body_.v.weather.t = "list"
        /\ \A i \in 1..Len(Body_.v.weather.v) : Body_.v.weather.v[i].t = "obj"

DefaultRequest ==
    /\ last.op = "get_weather"
    /\ environ.WEATHER_API_URL = None /\ environ.REQUEST_TIMEOUT = None
    /\ environ.WEATHER_API_KEY # ""

KeyAbsent == environ.WEATHER_API_KEY = None

TransportFails == response.transport # "ok" \/ response.http_status \notin 200..299

ParseFails == response.json.status = "raise"

EmbeddedError == ~("cod" \in DOMAIN Body_.v /\ Body_.v.cod = JNum("200"))

TempAbsent ==
    ~ /\ "main" \in DOMAIN Body_.v
      /\ Body_.v.main.t = "obj"
      /\ "temp" \in DOMAIN Body_.v.main.v
      /\ Body_.v.main.v.temp # JNull

DescriptionAbsent ==
    ~ /\ "weather" \in DOMAIN Body_.v
      /\ Len(Body_.v.weather.v) > 0
      /\ "description" \in DOMAIN Body_.v.weather.v[1].v
      /\ Body_.v.weather.v[1].v.description # JNull

RaisedWeatherError == last.status = "raise" /\ last.exc = "WeatherAPIError"

\* C8: the outcome of get_weather is that of the first failing step: no
\* API key, then a transport failure ("Failed to fetch weather data: "),
\* then an unparsable body ("Failed to parse weather data: "), then an
\* embedded status code that is not the success sentinel, then an absent
\* temperature or description.
C8_FirstFailingStep ==
    (DefaultRequest /\ (ParseFails \/ (Body_.t = "obj" /\ WeatherIsListOfDicts))) =>
        IF KeyAbsent
        THEN RaisedWeatherError /\ last.msg = "Weather API key not configured"
                                /\ last.calls.transport = 0
        ELSE IF TransportFails
        THEN RaisedWeatherError /\ StartsWith(last.msg, "Failed to fetch weather data: ")
        ELSE IF ParseFails
        THEN RaisedWeatherError /\ StartsWith(last.msg, "Failed to parse weather data: ")
        ELSE IF EmbeddedError
        THEN RaisedWeatherError /\ StartsWith(last.msg, "Weather API error: ")
        ELSE IF TempAbsent \/ DescriptionAbsent
        THEN RaisedWeatherError /\ last.msg = "Invalid weather data format"
        ELSE last.status = "return"

\* A body that was transported and parsed, with an API key configured.
ParsedDict ==
    /\ DefaultRequest /\ ~KeyAbsent /\ ~TransportFails /\ ~ParseFails
    /\ Body_.t = "obj"

\* C9: a parsed body whose embedded status code is not 200 (or that has
\* none) makes get_weather raise WeatherAPIError("Weather API error: " and
\* the body's message, "Unknown API error" when it has none), whether or
\* not the temperature and the description are there.
C9_EmbeddedApiError ==
    (ParsedDict /\ EmbeddedError) =>
        /\ RaisedWeatherError
        /\ last.msg = "Weather API error: "
                        \o (IF "message" \in DOMAIN Body_.v
                            THEN PyStr(Body_.v.message)
                            ELSE "Unknown API error")

C9_Witness ==
    /\ ParsedDict /\ EmbeddedError
    /\ "cod" \in DOMAIN Body_.v
    /\ "message" \in DOMAIN Body_.v
    /\ TempAbsent /\ DescriptionAbsent
    /\ last.msg = "Weather API error: city not found"

RequestedCity ==
    IF last.city \notin {None, ""} THEN last.city
    ELSE IF environ.DEFAULT_CITY # None THEN environ.DEFAULT_CITY
    ELSE "Dhaka"

\* C11: on success get_weather returns exactly "<city>: <temp>°C,
\* <description>", with the city that was asked for (the override, else the
\* configured default; never the name in the body), main.temp as it was
\* received and the description of the first element of the weather list.
C11_SuccessFormat ==
    (last.op = "get_weather" /\ last.status = "return") =>
        LET data == response.json.value.v
        IN  last.text = RequestedCity \o ": " \o data.main.v.temp.v \o "°C, "
                            \o data.weather.v[1].v.description.v

C11_Witness ==
    /\ last.op = "get_weather" /\ last.status = "return"
    /\ last.city = "Paris"
    /\ response = NamedAnswer
    /\ last.text = "Paris: -3.14159°C, mist"

\* The tokens of a line of `ip route`, and whether it is a default line.
IsDefaultLine(line) == Split(line) # <<>> /\ Split(line)[1] = "default"

DefaultLines(lines) == {i \in 1..Len(lines) : IsDefaultLine(lines[i])}

\* The routing-table command failed, timed out, or printed no default line.
RouteUnavailable ==
    \/ system.ip_route.status = "raise"
    \/ DefaultLines(system.ip_route.value) = {}

\* C12: whenever the routing-table command fails in any way, times out or
\* yields no default line, get_router_ip returns None without raising and
\* the aggregator's Router IP entry is "Not available", never "Error: ...".
C12_RouterSoft ==
    /\ (last.op = "get_router_ip" /\ RouteUnavailable) =>
            (last.status = "return" /\ last.text = None)
    /\ (last.op \in {"get_all_info", "main"} /\ HasKey(last.info, "Router IP")
            /\ RouteUnavailable) =>
            Lookup(last.info, "Router IP") = "Not available"

\* C13: get_router_ip returns the third token of the first line whose
\* first token is "default" (no later line matters), and None when no
\* line's first token is "default".
C13_FirstDefaultLine ==
    (last.op = "get_router_ip" /\ system.ip_route.status = "return") =>
        LET lines == system.ip_route.value
            found == DefaultLines(lines)
            first == Split(lines[CHOOSE i \in found : \A j \in found : i <= j])
        IN  /\ last.status = "return"
            /\ last.text = IF found = {} \/ Len(first) < 3 THEN None ELSE first[3]

\* The parts of a formatted uptime: the number and the unit of each.
UnitValue(part) == DecimalValue(SubSeq(part, 1, Len(part) - 1), 0)

UnitName(part) == SubSeq(part, Len(part), Len(part))

UnitSeconds(name) ==
    CASE name = "d" -> 86400 [] name = "h" -> 3600 [] name = "m" -> 60 [] name = "s" -> 1

FormattedParts == Split(last.text)

UptimeFormatted == last.op = "format_uptime" /\ ~argument.neg

\* C14: for an input >= 0 format_uptime emits no unit whose value is 0
\* unless it is the only unit; 0 gives "0s", 60 "1m", 3600 "1h", 86400 "1d";
\* the output is never empty.
C14_NoZeroUnits ==
    UptimeFormatted =>
        /\ last.status = "return"
        /\ last.text # "" /\ FormattedParts # <<>>
        /\ \A i \in 1..Len(FormattedParts) :
              UnitValue(FormattedParts[i]) # 0 \/ Len(FormattedParts) = 1
        /\ argument.whole = 0 => last.text = "0s"
        /\ argument.whole = 60 => last.text = "1m"
        /\ argument.whole = 3600 => last.text = "1h"
        /\ argument.whole = 86400 => last.text = "1d"

C14_Witness ==
    /\ UptimeFormatted /\ argument = Float(FALSE, 3660, "2") /\ last.text = "1h 1m"

RECURSIVE SumSeconds(_)
SumSeconds(parts) ==
    IF parts = <<>> THEN 0
    ELSE UnitValue(Head(parts)) * UnitSeconds(UnitName(Head(parts))) + SumSeconds(Tail(parts))

\* C15: for an input >= 0 the units of format_uptime appear in the order
\* d, h, m, s, with h < 24, m < 60 and s < 60, and add up to the input
\* truncated to an integer (never rounded).
C15_ExactDecomposition ==
    UptimeFormatted =>
        /\ last.status = "return"
        /\ \A i \in 1..Len(FormattedParts) :
              /\ UnitName(FormattedParts[i]) \in {"d", "h", "m", "s"}
              /\ UnitName(FormattedParts[i]) = "h" => UnitValue(FormattedParts[i]) < 24
              /\ UnitName(FormattedParts[i]) \in {"m", "s"} => UnitValue(FormattedParts[i]) < 60
              /\ \A j \in 1..Len(FormattedParts) :
                    i < j => UnitSeconds(UnitName(FormattedParts[i]))
                                 > UnitSeconds(UnitName(FormattedParts[j]))
        /\ SumSeconds(FormattedParts) = argument.whole

C15_Witness ==
    /\ UptimeFormatted /\ argument = Float(FALSE, 90125, "2") /\ last.text = "1d 1h 2m 5s"

EndsWith(s, p) == Len(s) >= Len(p) /\ SubSeq(s, Len(s) - Len(p) + 1, Len(s)) = p

Contains(s, sub) == \E i \in 1..(Len(s) - Len(sub) + 1) : SubSeq(s, i, i + Len(sub) - 1) = sub

\* /proc/uptime exists but cannot be read, is empty, or does not start
\* with a number.
UptimeUnparsable ==
    \/ system.uptime_line.status = "raise"
    \/ Split(system.uptime_line.value) = <<>>
    \/ PyFloat(Split(system.uptime_line.value)[1]).status = "raise"

\* C16: get_uptime raises SystemInfoError("... not found") when the file is
\* missing and SystemInfoError("Cannot parse uptime: ...") when it is
\* unreadable, empty or does not start with a number; otherwise it returns
\* format_uptime of the first field, whatever the second field is.
C16_UptimeOutcomes ==
    last.op = "get_uptime" =>
        IF ~system.uptime_exists
        THEN /\ last.status = "raise" /\ last.exc = "SystemInfoError"
             /\ EndsWith(last.msg, "not found")
        ELSE IF UptimeUnparsable
        THEN /\ last.status = "raise" /\ last.exc = "SystemInfoError"
             /\ StartsWith(last.msg, "Cannot parse uptime: ")
        ELSE /\ last.status = "return"
             /\ last.text =
                    format_uptime(PyFloat(Split(system.uptime_line.value)[1]).value).value
             /\ system.uptime_line.value \in {"90125.2", "90125.2 7.0", "90125.2 180000.55"}
                    => last.text = "1d 1h 2m 5s"

C16_Witness ==
    /\ last.op = "get_uptime" /\ system.uptime_exists
    /\ system.uptime_line = Returned("90125.2 7.0")
    /\ last.status = "return" /\ last.text = "1d 1h 2m 5s"

\* C17: when the socket method succeeds its address is returned and the
\* hostname is never resolved; when it fails the hostname is resolved and,
\* if that succeeds, its address is returned; SystemInfoError is raised
\* only when both fail.
C17_FallbackChain ==
    last.op = "get_ip_address" =>
        /\ system.socket.status = "return" =>
              /\ last.status = "return" /\ last.text = system.socket.value
              /\ last.calls.hostname = 0
        /\ system.socket.status = "raise" =>
              /\ last.calls.hostname = 1
              /\ system.hostname.status = "return" =>
                    (last.status = "return" /\ last.text = system.hostname.value)
              /\ system.hostname.status = "raise" =>
                    (last.status = "raise" /\ last.exc = "SystemInfoError")
        /\ last.status = "raise" =>
              (system.socket.status = "raise" /\ system.hostname.status = "raise")

C17_Witness ==
    /\ last.op = "get_ip_address"
    /\ system.socket.status = "raise" /\ system.hostname.status = "return"
    /\ last.status = "return" /\ last.text = "127.0.1.1" /\ last.calls.hostname = 1

TimeoutMalformed == environ.REQUEST_TIMEOUT # None /\ ~AllDigits(environ.REQUEST_TIMEOUT)

TimeoutError == "invalid literal for int() with base 10: '" \o environ.REQUEST_TIMEOUT \o "'"

\* C19: a malformed REQUEST_TIMEOUT is never turned into a probe failure:
\* get_weather raises no WeatherAPIError made of it, and no returned map
\* holds it as an "Error: ..." Weather entry.
C19_ConfigErrorFatal ==
    TimeoutMalformed =>
        /\ (last.op = "get_weather" /\ last.status = "raise" /\ last.exc = "WeatherAPIError")
              => ~Contains(last.msg, TimeoutError)
        /\ (last.op \in {"get_all_info", "main"} /\ HasKey(last.info, "Weather"))
              => ~Contains(Lookup(last.info, "Weather"), TimeoutError)

ConfigKeys == {"WEATHER_API_KEY", "DEFAULT_CITY", "REQUEST_TIMEOUT", "WEATHER_API_URL"}

\* What the Config property of a variable returns, in env.
ConfigProperty(env, key) ==
    CASE key = "WEATHER_API_KEY" -> weather_api_key(env)
      [] key = "DEFAULT_CITY" -> default_city(env)
      [] key = "REQUEST_TIMEOUT" -> timeout(env)
      [] key = "WEATHER_API_URL" -> weather_url_template(env)

\* An environment that holds the variables of a file and nothing else.
FileEnviron(pairs) ==
    [k \in ConfigKeys |-> IF HasKey(pairs, k) THEN Lookup(pairs, k) ELSE None]

NoEnviron == [k \in ConfigKeys |-> None]

ExplicitFileLoaded == last.op = "Config" /\ last.flag

\* C20 as claimed: explicit env-file path > process environment: after
\* Config(env_file) every variable the explicit file defines reads the
\* file's value through its Config property, also when the process
\* environment had set it.
C20_ExplicitFileFirst ==
    ExplicitFileLoaded =>
        \A k \in ConfigKeys :
            HasKey(last.info, k) =>
                ConfigProperty(environ, k) = ConfigProperty(FileEnviron(last.info), k)

\* C20: process environment > env file (the explicit path when one is
\* given, the discovered file otherwise) > built-in defaults: a construction
\* of Config leaves every variable the process environment has set as it
\* is, gives every other variable the value the loaded file defines, and
\* leaves the rest unset, to read as its default.
C20_EnvironmentFirst ==
    [][\A k \in ConfigKeys :
          /\ environ[k] # None => environ'[k] = environ[k]
          /\ (environ[k] = None /\ HasKey(last'.info, k)) =>
                ConfigProperty(environ', k) = ConfigProperty(FileEnviron(last'.info), k)
          /\ (environ[k] = None /\ ~HasKey(last'.info, k)) =>
                ConfigProperty(environ', k) = ConfigProperty(NoEnviron, k)
          /\ last'.flag => last'.info = FileContent(last'.text)]_vars

C20_Witness ==
    /\ ExplicitFileLoaded /\ last.text = "full.env"
    /\ environ.DEFAULT_CITY = "EnvCity" /\ environ.WEATHER_API_KEY = "env_key"
    /\ environ.REQUEST_TIMEOUT = "30"
    /\ environ.WEATHER_API_URL = "http://test.api.com/weather?q={city}&appid={api_key}"

(***************************************************************************)
(* Properties of a run of main                                             *)
(***************************************************************************)
\* A probe that the most recent call invoked was interrupted.
InterruptRaised ==
    \/ last.calls.transport > 0 /\ response.transport = "KeyboardInterrupt"
    \/ last.calls.ip > 0 /\ get_ip_address(system).exc = "KeyboardInterrupt"
    \/ last.calls.router > 0 /\ system.ip_route.exc = "KeyboardInterrupt"
    \/ last.calls.uptime > 0 /\ system.uptime_exists
          /\ system.uptime_line.exc = "KeyboardInterrupt"

\* C21: a KeyboardInterrupt raised during a probe, on the combined or on
\* the city-override path, is not caught by the aggregator and never
\* becomes an "Error: ..." entry: get_all_info raises it, and main prints
\* no table, prints "Operation cancelled by user" to stderr and returns 1.
C21_InterruptTerminates ==
    /\ (last.op = "get_all_info" /\ InterruptRaised) =>
            (last.status = "raise" /\ last.exc = "KeyboardInterrupt" /\ last.info = <<>>)
    /\ (last.op = "main" /\ InterruptRaised) =>
            /\ last.status = "return" /\ last.exit = 1
            /\ last.info = <<>>
            /\ last.stderr = "\nOperation cancelled by user"

C21_Witness ==
    /\ last.op = "main" /\ ~last.flag /\ last.city = "Paris"
    /\ system.uptime_line = Interrupt
    /\ last.calls.uptime = 1 /\ last.calls.weather = 0
    /\ last.exit = 1 /\ last.stderr = "\nOperation cancelled by user"

\* C22: in a run without a configuration-construction failure and without
\* an interrupt, whatever the probes do, main returns 0 and prints the
\* table with the four non-weather entries.
C22_MainReturnsZero ==
    last.op = "main" =>
        /\ last.status = "return" /\ last.exit = 0
        /\ \A label \in Range(ExpectedLabels(FALSE)) : HasKey(last.info, label)

\* What the probe behind a label other than Date/Time does, called on its
\* own, before the aggregator touches its result.
RawOutcome(label) ==
    CASE label = "Weather" -> get_weather(environ, response, None).out
      [] label = "IP Address" -> get_ip_address(system)
      [] label = "Router IP" -> get_router_ip(system)
      [] label = "Uptime" -> get_uptime(system)

\* C23: every value of a map that get_all_info returns is a string and
\* not the None marker: the timestamp, the string its probe returned,
\* "Not available" (Router IP only, when the probe returned nothing), or
\* "Error: " followed by the message of the probe's failure.
C23_DisplayReady ==
    AggregatorReturned =>
        \A i \in 1..Len(last.info) :
            LET label == last.info[i][1]
                value == last.info[i][2]
            IN  /\ value \in STRING
                /\ value # None
                /\ \/ label = "Date/Time" /\ value \in Range(system.clock)
                   \/ /\ label # "Date/Time"
                      /\ RawOutcome(label).status = "return"
                      /\ Truthy(RawOutcome(label).value)
                      /\ value = RawOutcome(label).value
                   \/ /\ label = "Router IP"
                      /\ RawOutcome(label).status = "return"
                      /\ ~Truthy(RawOutcome(label).value)
                      /\ value = "Not available"
                   \/ /\ label # "Date/Time"
                      /\ RawOutcome(label).status = "raise"
                      /\ value = "Error: " \o RawOutcome(label).msg

C23_Witness ==
    /\ AggregatorReturned /\ last.flag
    /\ Lookup(last.info, "Router IP") = "Not available"
    /\ get_router_ip(system) = Returned(None)
    /\ IsError(Lookup(last.info, "Weather"))
    /\ ~IsError(Lookup(last.info, "Uptime"))

\* The weather probe was invoked for the city of --city and failed.
OverrideWeatherFailed ==
    /\ OverrideRun /\ last.calls.weather > 0
    /\ get_weather(environ, response, last.city).out.status = "raise"

\* C24: when --city is given, weather is not disabled and the weather
\* probe fails for that city, main returns 0 and the table holds the four
\* non-weather entries and Weather = "Error: " and the failure's message.
C24_OverrideWeatherError ==
    OverrideWeatherFailed =>
        /\ last.status = "return" /\ last.exit = 0
        /\ \A label \in Range(ExpectedLabels(FALSE)) : HasKey(last.info, label)
        /\ HasKey(last.info, "Weather")
        /\ Lookup(last.info, "Weather") =
              "Error: " \o get_weather(environ, response, last.city).out.msg

C24_Witness ==
    /\ OverrideWeatherFailed
    /\ get_weather(environ, response, last.city).out.exc = "AttributeError"
    /\ last.exit = 0
    /\ IsError(Lookup(last.info, "Weather"))
    /\ ~IsError(Lookup(last.info, "Uptime"))

(***************************************************************************)
(* Properties of repeated constructions of Config                          *)
(***************************************************************************)
\* C25: a construction of Config, from an explicit file or a discovered
\* one, leaves every variable that is set in the process environment with
\* its value and its Config property with its reading; so when Config(A)
\* is followed by Config(B), a key that both files define and that read
\* A's value after Config(A) reads A's value after Config(B).
C25_SetVariablesKept ==
    [][/\ \A k \in ConfigKeys :
             environ[k] # None =>
                 /\ environ'[k] = environ[k]
                 /\ ConfigProperty(environ', k) = ConfigProperty(environ, k)
       /\ (last.op = "Config" /\ last'.op = "Config") =>
             \A k \in ConfigKeys :
                 (/\ HasKey(last.info, k) /\ HasKey(last'.info, k)
                  /\ environ[k] = Lookup(last.info, k)) =>
                     /\ environ'[k] = Lookup(last.info, k)
                     /\ ConfigProperty(environ', k) =
                            ConfigProperty(FileEnviron(last.info), k)]_vars

C25_Witness ==
    /\ last.op = "Config" /\ last.text = "city.env"
    /\ HasKey(last.info, "DEFAULT_CITY")
    /\ Lookup(last.info, "DEFAULT_CITY") = "OtherCity"
    /\ environ.DEFAULT_CITY = "FileCity"
    /\ default_city(environ) = "FileCity"

(***************************************************************************)
(* Properties of the probes a run of main invokes                          *)
(***************************************************************************)
\* C27: during one run of main the current time, the IP address, the
\* router IP and the uptime are each read at most once, on every path.
C27_ProbesOnce ==
    last.op = "main" =>
        /\ last.calls.time <= 1 /\ last.calls.ip <= 1
        /\ last.calls.router <= 1 /\ last.calls.uptime <= 1

(***************************************************************************)
(* Properties of falsy values in the weather path                          *)
(***************************************************************************)
\* The temperature or the description of the body is there and falsy:
\* the number 0 or the empty string.
FalsyField ==
    /\ ~TempAbsent /\ ~DescriptionAbsent
    /\ \/ ~JTruthy(Body_.v.main.v.temp)
       \/ ~JTruthy(Body_.v.weather.v[1].v.description)

\* C28: with embedded status code 200, a temperature of 0 and an empty
\* description count as present: get_weather returns "<city>: 0°C, " and
\* the like; and "Invalid weather data format" is raised only for a parsed
\* dict body in which the temperature or the description is missing or null.
C28_FalsyFieldsAccepted ==
    /\ (ParsedDict /\ ~EmbeddedError /\ WeatherIsListOfDicts /\ FalsyField) =>
            /\ last.status = "return"
            /\ last.text = RequestedCity \o ": " \o PyStr(Body_.v.main.v.temp) \o "°C, "
                               \o PyStr(Body_.v.weather.v[1].v.description)
    /\ (last.op = "get_weather" /\ last.msg = "Invalid weather data format") =>
            /\ response.json.status = "return" /\ Body_.t = "obj"
            /\ WeatherIsListOfDicts
            /\ TempAbsent \/ DescriptionAbsent

C28_Witness ==
    /\ last.op = "get_weather" /\ last.city = "Paris"
    /\ response \in FalsyAnswers
    /\ Body_.v.main.v.temp = JNum("0")
    /\ Body_.v.weather.v[1].v.description = JStr("")
    /\ last.status = "return" /\ last.text = "Paris: 0°C, "

\* C29: an empty string counts as absent in the weather path. get_weather("")
\* asks for the configured default city and does what get_weather() does;
\* main with --city "" takes the combined path (one aggregation pass with
\* the weather probe in it, Weather second in the table); and with an
\* empty API key the weather probe fails with "Weather API key not
\* configured" and no network call is made.
C29_EmptyIsAbsent ==
    /\ (last.op = "get_weather" /\ last.city = "") =>
            /\ last.status = get_weather(environ, response, None).out.status
            /\ last.msg = get_weather(environ, response, None).out.msg
            /\ last.status = "return" => StartsWith(last.text, default_city(environ) \o ": ")
    /\ (last.op = "main" /\ ~last.flag /\ last.city = "") =>
            /\ last.calls.time = 1 /\ last.calls.weather = 1
            /\ last.exit = main(environ, response, system, FALSE, None).exit
            /\ last.info = main(environ, response, system, FALSE, None).table
            /\ last.exit = 0 => Keys(last.info) = ExpectedLabels(TRUE)
    /\ (WeatherRequested /\ environ.WEATHER_API_KEY = "") =>
            /\ last.calls.transport = 0
            /\ MapProduced /\ Lookup(last.info, "Weather") = "Error: Weather API key not configured"
    /\ (last.op = "get_weather" /\ environ.WEATHER_API_KEY = "") =>
            /\ RaisedWeatherError /\ last.msg = "Weather API key not configured"
            /\ last.calls.transport = 0

C29_Witness ==
    /\ last.op = "main" /\ ~last.flag /\ last.city = ""
    /\ environ.WEATHER_API_KEY = ""
    /\ last.exit = 0
    /\ Keys(last.info)[2] = "Weather"
    /\ Lookup(last.info, "Weather") = "Error: Weather API key not configured"
    /\ last.calls.transport = 0 /\ last.calls.time = 1

(***************************************************************************)
(* Properties of the "sysstatus" logger                                    *)
(***************************************************************************)
\* C26: the level chosen with --log-level is the level of the "sysstatus"
\* logger while the probes of that run of main run, and when it ends.
C26_LevelStaysSelected ==
    last.op = "main" => logger.level = LevelNumber[last.level]

\* The level name passed to the most recent call of setup_logging: by the
\* caller, or by SystemInfo.__init__ (also within main).
MostRecentLevel == IF last.op = "setup_logging" THEN last.level ELSE "INFO"

LoggerUsed == last.op \in {"setup_logging", "SystemInfo", "main"}

====
